---- MODULE Spec2Model ----
(***************************************************************************)
(* droply: authentication-gated endpoints over one table of file/folder    *)
(* metadata (the Metadata Store) and an external object store (ImageKit,   *)
(* the Blob Store).  Each route handler is one action; the handlers are    *)
(* translated from src/app/api/.  Spec and SpecTrash serve the requests    *)
(* one after the other; SpecSteps, SpecConcurrent and SpecRace follow      *)
(* Empty Trash and Create Folder from await to await; SpecForm is the      *)
(* submit handler of the sign-up form.                                     *)
(***************************************************************************)
EXTENDS Integers, Sequences, FiniteSets, TLC

(* ------------------------------ bounds --------------------------------- *)

\* number of identifiers the store ever generates (rows ever created)
MaxRows == 2

(* --------------------------- value domains ----------------------------- *)

\* identities the Identity Oracle can report
Users == {"u1", "u2"}
\* auth() reports no user / the request carries no userId
NoUser == "null"

\* parentId values: null or undefined, the empty string, a well-formed
\* identifier that names no row, and the identifiers generated so far
NULL == -1
EMPTY == -2
BOGUS == 0

\* JavaScript truthiness of a parentId value
Truthy(p) == p # NULL /\ p # EMPTY

\* folder names a request body may carry
Str(s) == [kind |-> "string", s |-> s]
Names ==
    { [kind |-> "undefined", s |-> <<>>],
      [kind |-> "number", s |-> <<>>],
      Str(<<>>),
      Str(<<" ">>),
      Str(<<" ", "a", " ">>),
      Str(<<"a">>) }
\* a name that is one token, such as a file name
Tok(t) == <<t>>
NoName == [kind |-> "undefined", s |-> <<>>]

\* String.prototype.trim on a sequence of characters
RECURSIVE TrimLeft(_)
TrimLeft(s) ==
    IF s # <<>> /\ Head(s) = " " THEN TrimLeft(Tail(s)) ELSE s

RECURSIVE TrimRight(_)
TrimRight(s) ==
    IF s # <<>> /\ s[Len(s)] = " " THEN TrimRight(SubSeq(s, 1, Len(s) - 1)) ELSE s

Trim(s) == TrimRight(TrimLeft(s))

\* the name test without the trim
NameInvalid_NoTrim(name) ==
    \/ name.kind # "string"
    \/ name.s = <<>>

\* !name || typeof name !== "string" || name.trim() === ""
NameInvalid(name) ==
    \/ name.kind = "undefined"
    \/ name.kind = "string" /\ name.s = <<>>
    \/ name.kind # "string"
    \/ Trim(name.s) = <<>>

\* multipart file payloads: none, or a File with a name and a MIME type
NoFile == [present |-> FALSE, name |-> <<>>, type |-> "", size |-> 0]
Payloads ==
    { NoFile,
      [present |-> TRUE, name |-> Tok("a.png"), type |-> "image/png", size |-> 1],
      [present |-> TRUE, name |-> Tok("b.pdf"), type |-> "application/pdf", size |-> 1],
      [present |-> TRUE, name |-> Tok("c.txt"), type |-> "text/plain", size |-> 1] }

\* a type test that lets every payload through
TypeSupported_Any(type) == TRUE

\* file.type.startsWith("image/") || file.type === "application/pdf"
TypeSupported(type) == type \in {"image/png", "application/pdf"}

\* A URL is its "/"-separated segments and its query string; the empty
\* string is the URL with no segments.
Url(segs, query) == [segs |-> segs, query |-> query]
NoUrl == Url(<<>>, "")
\* the `imagekit` member of a register-upload body: absent, without a url,
\* with a url but no name, with both
NoIk == [present |-> FALSE, url |-> NoUrl, name |-> <<>>, filePath |-> <<>>]
IkResults ==
    { NoIk,
      [present |-> TRUE, url |-> NoUrl, name |-> Tok("a.png"), filePath |-> <<>>],
      [present |-> TRUE, url |-> Url(<<"ik", "a.png">>, "tr=w-1"), name |-> <<>>, filePath |-> <<>>],
      [present |-> TRUE, url |-> Url(<<"ik", "a.png">>, ""), name |-> Tok("a.png"),
       filePath |-> <<"droply", "a.png">>] }

\* what imagekit.upload resolves to
UploadResponse == [url |-> Url(<<"ik", "up">>, ""), filePath |-> <<"droply", "up">>]

\* which awaited call of a handler throws, if any
Faults == {"none", "select", "blob", "write"}

(* ------------------------------- state --------------------------------- *)

VARIABLES
    files,    \* the rows of the `files` table
    nextId,   \* the next identifier the store generates
    pre,      \* the rows of the table when the last request arrived
    last,     \* the last request and its response
    calls,    \* the Empty Trash calls that are between two of their awaits
    creating, \* the Create Folder call that is between its check and its insert
    form      \* the state of the sign-up form and of its submit handler

vars == <<files, nextId, pre, last, calls, creating, form>>

NoInput == [name |-> NoName, parentId |-> NULL, file |-> NoFile, imagekit |-> NoIk, target |-> NULL]

\* no request is being answered
Idle ==
    [op |-> "none", auth |-> NoUser, reqUser |-> NoUser, in |-> NoInput,
     status |-> 0, error |-> "", out |-> {}, deleted |-> 0,
     blob |-> {}, reads |-> 0, writes |-> 0, threw |-> "none"]

\* the Empty Trash calls whose steps are followed one await at a time:
\* one where other requests run between the steps, two where the calls
\* run against each other
FirstCall == {"c1"}
Calls == {"c1", "c2"}

\* a call that has not started: no userId, no trashedFiles, no promise
NoCall ==
    [pc |-> "idle", auth |-> NoUser, trashedFiles |-> {}, pending |-> {},
     settled |-> <<>>, status |-> 0, deleted |-> 0, removed |-> {}]

\* no Create Folder call is between its awaits
NoCreate ==
    [pc |-> "idle", auth |-> NoUser, parentId |-> NULL, parentFolder |-> {},
     status |-> 0, folder |-> NULL]

\* useState(false), useState(null), the form's defaultValues and a Clerk
\* that has not loaded yet
InitialForm ==
    [isLoaded |-> FALSE, verifying |-> FALSE, isSubmitting |-> FALSE,
     authError |-> "null", showPassword |-> FALSE, showConfirmPassword |-> FALSE,
     pc |-> "idle", email |-> "", clerk |-> <<>>]

Init ==
    /\ files = {}
    /\ nextId = 1
    /\ pre = {}
    /\ last = Idle
    /\ calls = [c \in Calls |-> NoCall]
    /\ creating = NoCreate
    /\ form = InitialForm

\* NextResponse.json(...) together with what the handler did on the way
Reply(op, auth, reqUser, in, status, error, out, deleted, blob, reads, writes) ==
    [op |-> op, auth |-> auth, reqUser |-> reqUser, in |-> in,
     status |-> status, error |-> error, out |-> out, deleted |-> deleted,
     blob |-> blob, reads |-> reads, writes |-> writes, threw |-> "none"]

\* a handler that forgets the check of auth()
Unauthenticated_Never(userId) == FALSE

\* const { userId } = await auth(); if (!userId) ...
Unauthenticated(userId) == userId = NoUser

\* the parent lookup: a row with this id, of this user, that is a folder
ParentFolder(fs, parentId, userId) ==
    { f \in fs : f.id = parentId /\ f.userId = userId /\ f.isFolder }

\* the parent_id column holds an identifier or NULL
ColumnAccepts(parentId) == parentId # EMPTY

\* what a handler hands back: the response, the table, the id generator
Outcome(resp, fs, nid) == [resp |-> resp, files |-> fs, nextId |-> nid]

\* the outcome of a handler whose awaited call threw into its catch block
Threw(o, what) == [o EXCEPT !.resp.threw = what]

\* db.insert(files).values(data).returning()
Inserted(fs, data, nid) == fs \cup {[data EXCEPT !.id = nid]}

(* ------------------------- GET /api/files ------------------------------ *)

\* !queryUserId || queryUserId !== userId
QueryUserRejected(queryUserId, userId) ==
    queryUserId = NoUser \/ queryUserId # userId

\* the SELECTs without the owner condition
ListRows_AnyOwner(fs, userId, parentId) ==
    IF Truthy(parentId)
    THEN { f \in fs : f.parentId = parentId }
    ELSE { f \in fs : f.parentId = NULL }

\* the SELECTs with a filter on the trash flag
ListRows_HideTrash(fs, userId, parentId) ==
    IF Truthy(parentId)
    THEN { f \in fs : f.userId = userId /\ f.parentId = parentId /\ ~f.isTrash }
    ELSE { f \in fs : f.userId = userId /\ f.parentId = NULL /\ ~f.isTrash }

\* the two SELECTs of the handler
ListRows(fs, userId, parentId) ==
    IF Truthy(parentId)
    THEN { f \in fs : f.userId = userId /\ f.parentId = parentId }
    ELSE { f \in fs : f.userId = userId /\ f.parentId = NULL }

ListHandler(auth, queryUserId, parentId, fault) ==
    LET in == [NoInput EXCEPT !.parentId = parentId]
        R(status, error, out, reads) ==
            Outcome(Reply("List", auth, queryUserId, in, status, error, out, 0, {}, reads, 0),
                    files, nextId)
    IN  IF Unauthenticated(auth) THEN R(401, "Unauthorized", {}, 0)
        ELSE IF QueryUserRejected(queryUserId, auth) THEN R(401, "Unauthorized", {}, 0)
        ELSE IF fault = "select" THEN Threw(R(500, "Error to fetch files", {}, 1), "select")
        ELSE R(200, "", ListRows(files, auth, parentId), 1)

(* ---------------------- POST create folder ----------------------------- *)

\* a handler that trusts the userId of the body
BodyUserRejected_Never(bodyUserId, userId) == FALSE

\* bodyUserId !== userId (also formUserId !== userId)
BodyUserRejected(bodyUserId, userId) == bodyUserId # userId

\* the row built from the name as sent
FolderData_Untrimmed(name, userId, parentId) ==
    [id |-> NULL,
     name |-> name.s,
     path |-> <<"folders", userId, "uuid">>,
     size |-> 0,
     type |-> "folder",
     fileUrl |-> NoUrl,
     thumbnailUrl |-> "null",
     userId |-> userId,
     parentId |-> parentId,
     isFolder |-> TRUE,
     isStarred |-> FALSE,
     isTrash |-> FALSE]

\* folderData of the handler
FolderData(name, userId, parentId) ==
    [id |-> NULL,
     name |-> Trim(name.s),
     path |-> <<"folders", userId, "uuid">>,
     size |-> 0,
     type |-> "folder",
     fileUrl |-> NoUrl,
     thumbnailUrl |-> "null",
     userId |-> userId,
     parentId |-> parentId,
     isFolder |-> TRUE,
     isStarred |-> FALSE,
     isTrash |-> FALSE]

\* the parent lookup by id alone
FolderParentMissing_IdOnly(fs, parentId, userId) ==
    Truthy(parentId) /\ { f \in fs : f.id = parentId } = {}

\* if (parentId) { select ...; if (!parentFolder) return ... }
FolderParentMissing(fs, parentId, userId) ==
    Truthy(parentId) /\ ParentFolder(fs, parentId, userId) = {}

CreateFolderHandler(auth, bodyUserId, name, parentId, fault) ==
    LET in == [NoInput EXCEPT !.name = name, !.parentId = parentId]
        reads == IF Truthy(parentId) THEN 1 ELSE 0
        R(status, error, out, rd, wr, fs, nid) ==
            Outcome(Reply("CreateFolder", auth, bodyUserId, in, status, error, out, 0, {}, rd, wr),
                    fs, nid)
        data == FolderData(name, auth, parentId)
    IN  IF Unauthenticated(auth) THEN R(401, "Unauthorized", {}, 0, 0, files, nextId)
        ELSE IF BodyUserRejected(bodyUserId, auth)
            THEN R(401, "Unauthorized", {}, 0, 0, files, nextId)
        ELSE IF NameInvalid(name)
            THEN R(400, "Folder name is required", {}, 0, 0, files, nextId)
        ELSE IF Truthy(parentId) /\ fault = "select"
            THEN Threw(R(500, "Failed to create folder", {}, 1, 0, files, nextId), "select")
        ELSE IF FolderParentMissing(files, parentId, auth)
            THEN R(401, "Parent folder not found", {}, 1, 0, files, nextId)
        ELSE IF fault = "write" \/ ~ColumnAccepts(parentId)
            THEN Threw(R(500, "Failed to create folder", {}, reads, 1, files, nextId), "write")
        ELSE R(200, "", {[data EXCEPT !.id = nextId]}, reads, 1,
               Inserted(files, data, nextId), nextId + 1)

(* --------------------- POST register upload ---------------------------- *)

\* the upload data test on the presence of the member alone
UploadDataInvalid_PresenceOnly(ik) == ~ik.present

\* !imagekit || !imagekit.url
UploadDataInvalid(ik) == ~ik.present \/ ik.url = NoUrl

RegisterData(ik, userId) ==
    [id |-> NULL,
     name |-> IF ik.name # <<>> THEN ik.name ELSE Tok("Untitled"),
     path |-> IF ik.filePath # <<>> THEN ik.filePath
              ELSE <<"droply", userId>> \o (IF ik.name # <<>> THEN ik.name ELSE Tok("undefined")),
     size |-> 0,
     type |-> "image",
     fileUrl |-> ik.url,
     thumbnailUrl |-> "null",
     userId |-> userId,
     parentId |-> NULL,
     isFolder |-> FALSE,
     isStarred |-> FALSE,
     isTrash |-> FALSE]

\* a handler that files the row under the userId of the body
RegisterUploadHandler_BodyOwner(auth, bodyUserId, ik, fault) ==
    LET in == [NoInput EXCEPT !.imagekit = ik]
        R(status, error, out, wr, fs, nid) ==
            Outcome(Reply("RegisterUpload", auth, bodyUserId, in, status, error, out, 0, {}, 0, wr),
                    fs, nid)
        data == RegisterData(ik, bodyUserId)
    IN  IF Unauthenticated(auth) THEN R(401, "Unauthorized", {}, 0, files, nextId)
        ELSE IF UploadDataInvalid(ik)
            THEN R(401, "Invalid file upload data", {}, 0, files, nextId)
        ELSE IF fault = "write"
            THEN Threw(R(500, "Failed to save file information", {}, 1, files, nextId), "write")
        ELSE R(200, "", {[data EXCEPT !.id = nextId]}, 1,
               Inserted(files, data, nextId), nextId + 1)

RegisterUploadHandler(auth, bodyUserId, ik, fault) ==
    LET in == [NoInput EXCEPT !.imagekit = ik]
        R(status, error, out, wr, fs, nid) ==
            Outcome(Reply("RegisterUpload", auth, bodyUserId, in, status, error, out, 0, {}, 0, wr),
                    fs, nid)
        data == RegisterData(ik, auth)
    IN  IF Unauthenticated(auth) THEN R(401, "Unauthorized", {}, 0, files, nextId)
        ELSE IF BodyUserRejected(bodyUserId, auth)
            THEN R(401, "Unauthorized", {}, 0, files, nextId)
        ELSE IF UploadDataInvalid(ik)
            THEN R(401, "Invalid file upload data", {}, 0, files, nextId)
        ELSE IF fault = "write"
            THEN Threw(R(500, "Failed to save file information", {}, 1, files, nextId), "write")
        ELSE R(200, "", {[data EXCEPT !.id = nextId]}, 1,
               Inserted(files, data, nextId), nextId + 1)

(* -------------------- POST upload and register ------------------------- *)

\* formData.get("parentId") as string || null
FormParent(parentId) == IF Truthy(parentId) THEN parentId ELSE NULL

\* if (!parentId) return 404; the row the lookup found is never consulted
UploadParentMissing(fs, parentId, userId) == ~Truthy(parentId)

\* the row filed at the root whatever the parent
UploadData_AtRoot(file, up, userId, parentId) ==
    [id |-> NULL,
     name |-> file.name,
     path |-> up.filePath,
     size |-> file.size,
     type |-> file.type,
     fileUrl |-> up.url,
     thumbnailUrl |-> "null",
     userId |-> userId,
     parentId |-> NULL,
     isFolder |-> FALSE,
     isStarred |-> FALSE,
     isTrash |-> FALSE]

\* fileData of the handler
UploadData(file, up, userId, parentId) ==
    [id |-> NULL,
     name |-> file.name,
     path |-> up.filePath,
     size |-> file.size,
     type |-> file.type,
     fileUrl |-> up.url,
     thumbnailUrl |-> "null",
     userId |-> userId,
     parentId |-> parentId,
     isFolder |-> FALSE,
     isStarred |-> FALSE,
     isTrash |-> FALSE]

\* imagekit.upload({file, fileName, folder, useUniqueFileName})
UploadCall(userId, parentId) ==
    [call |-> "upload", name |-> "uuid", owner |-> userId, folder |-> parentId,
     row |-> NULL, n |-> 1, ok |-> TRUE, found |-> ""]

\* a catch block that hands the provider's message to the client
UploadCatch_Leaky(what) ==
    [status |-> 500, error |-> IF what = "blob" THEN "imagekit upload error" ELSE "database error"]

\* catch (error) { return NextResponse.json({ error: "Failed to upload file" }, { status: 500 }) }
UploadCatch(what) == [status |-> 500, error |-> "Failed to upload file"]

UploadHandler(auth, formUserId, file, rawParentId, fault) ==
    LET in == [NoInput EXCEPT !.file = file, !.parentId = rawParentId]
        parentId == FormParent(rawParentId)
        reads == IF Truthy(parentId) THEN 1 ELSE 0
        R(status, error, out, blob, rd, wr, fs, nid) ==
            Outcome(Reply("Upload", auth, formUserId, in, status, error, out, 0, blob, rd, wr),
                    fs, nid)
        data == UploadData(file, UploadResponse, auth, parentId)
        call == {UploadCall(auth, parentId)}
        failed == {[UploadCall(auth, parentId) EXCEPT !.ok = FALSE]}
    IN  IF Unauthenticated(auth) THEN R(401, "Unauthorized", {}, {}, 0, 0, files, nextId)
        ELSE IF BodyUserRejected(formUserId, auth)
            THEN R(401, "Unauthorized", {}, {}, 0, 0, files, nextId)
        ELSE IF ~file.present
            THEN R(401, "No file provided", {}, {}, 0, 0, files, nextId)
        ELSE IF Truthy(parentId) /\ fault = "select"
            THEN Threw(R(UploadCatch("select").status, UploadCatch("select").error,
                         {}, {}, 1, 0, files, nextId), "select")
        ELSE IF UploadParentMissing(files, parentId, auth)
            THEN R(404, "Parent folder not found", {}, {}, reads, 0, files, nextId)
        ELSE IF ~TypeSupported(file.type)
            THEN R(400, "Only images and pdf are supported", {}, {}, reads, 0, files, nextId)
        ELSE IF fault = "blob"
            THEN Threw(R(UploadCatch("blob").status, UploadCatch("blob").error,
                         {}, failed, reads, 0, files, nextId), "blob")
        ELSE IF fault = "write"
            THEN Threw(R(UploadCatch("write").status, UploadCatch("write").error,
                         {}, call, reads, 1, files, nextId), "write")
        ELSE R(200, "", {[data EXCEPT !.id = nextId]}, call, reads, 1,
               Inserted(files, data, nextId), nextId + 1)

(* ---------------------- GET ImageKit auth ------------------------------ *)

ImageKitAuthHandler(auth, fault) ==
    LET R(status, error) ==
            Outcome(Reply("ImageKitAuth", auth, NoUser, NoInput, status, error, {}, 0, {}, 0, 0),
                    files, nextId)
    IN  IF Unauthenticated(auth) THEN R(401, "Unauthorized")
        ELSE IF fault = "blob"
            THEN Threw(R(500, "Failed to generate authentication parameters for imagekit"), "blob")
        ELSE R(200, "")

(* ------------------------ DELETE empty trash --------------------------- *)

\* where(and(eq(files.userId, userId), eq(files.isTrash, true)))
Trashed(fs, userId) == { f \in fs : f.userId = userId /\ f.isTrash }

\* the object identifier derived from fileUrl, else from path ("" is none)
ImagekitFileId(f) ==
    LET fromUrl == IF f.fileUrl # NoUrl THEN f.fileUrl.segs[Len(f.fileUrl.segs)] ELSE ""
    IN  IF fromUrl # "" THEN fromUrl
        ELSE IF f.path # <<>> THEN f.path[Len(f.path)]
        ELSE ""

\* how the Blob Store answers one deletePromise: what listFiles does, and
\* whether the first and the second deleteFile of the promise succeed
Lookup(list, first, second) == [list |-> list, first |-> first, second |-> second]
Lookups ==
    { Lookup("match", TRUE, TRUE), Lookup("match", FALSE, TRUE), Lookup("match", FALSE, FALSE),
      Lookup("nomatch", TRUE, TRUE), Lookup("nomatch", FALSE, TRUE), Lookup("nomatch", FALSE, FALSE),
      Lookup("notFile", TRUE, TRUE),
      Lookup("throws", TRUE, TRUE), Lookup("throws", FALSE, TRUE) }

\* one call of the SDK for the row f: its place in the promise of f and
\* whether it succeeded
BlobCall(call, f, n, ok) ==
    [call |-> call, name |-> ImagekitFileId(f), owner |-> f.userId, folder |-> NULL,
     row |-> f.id, n |-> n, ok |-> ok, found |-> ""]

\* a deletePromise that deletes by the derived name without a lookup
BlobCallsFor_Direct(f, lookup) ==
    IF ImagekitFileId(f) = "" THEN {}
    ELSE {BlobCall("deleteFile", f, 1, lookup.first)}

\* the Blob Store calls one deletePromise makes: listFiles, then deleteFile
\* by the match's fileId or by the derived name; a throw inside the inner
\* try goes to the inner catch, which deletes by the derived name
BlobCallsFor(f, lookup) ==
    LET list(ok) == [BlobCall("listFiles", f, 1, ok) EXCEPT !.found = lookup.list]
        byId(ok) == BlobCall("deleteFileId", f, 2, ok)
        byName(n, ok) == BlobCall("deleteFile", f, n, ok)
    IN  IF ImagekitFileId(f) = "" THEN {}
        ELSE IF lookup.list = "throws" THEN {list(FALSE), byName(2, lookup.first)}
        ELSE IF lookup.list = "notFile" THEN {list(TRUE)}
        ELSE IF lookup.list = "match" THEN
            IF lookup.first THEN {list(TRUE), byId(TRUE)}
            ELSE {list(TRUE), byId(FALSE), byName(3, lookup.second)}
        ELSE
            IF lookup.first THEN {list(TRUE), byName(2, TRUE)}
            ELSE {list(TRUE), byName(2, FALSE), byName(3, lookup.second)}

\* trashedFiles.filter((file) => !file.isFolder)
DeleteTargets(trashed) == { f \in trashed : ~f.isFolder }

\* a DELETE that leaves the trashed folders in the table
DeletedRows_FilesOnly(fs, userId) == { f \in fs : f.userId = userId /\ f.isTrash /\ ~f.isFolder }

\* a DELETE that takes the rows inside a trashed folder with it
DeletedRows_Cascade(fs, userId) ==
    { f \in fs : /\ f.userId = userId
                 /\ \/ f.isTrash
                    \/ \E g \in fs : g.id = f.parentId /\ g.userId = userId /\ g.isTrash }

\* db.delete(files).where(and(eq(files.userId, userId), eq(files.isTrash, true)))
DeletedRows(fs, userId) == { f \in fs : f.userId = userId /\ f.isTrash }

\* a rejected deletePromise that reaches the handler's catch block
BlobFailureAborts_IfAny(blob) == \E c \in blob : ~c.ok

\* every deletePromise catches its own errors and Promise.allSettled never
\* rejects: no Blob Store failure reaches the handler's catch block
BlobFailureAborts(blob) == FALSE

\* if (trashedFiles.length === 0) return "No files in trash"
NothingTrashed(trashed) == trashed = {}

\* an empty trash reported as an error
NoTrashReply_NotFound == [status |-> 404, error |-> "No files in trash"]

\* return NextResponse.json({ message: "No files in trash" }, { status: 200 })
NoTrashReply == [status |-> 200, error |-> ""]

EmptyTrashHandler(auth, lookup, fault) ==
    LET trashed == Trashed(files, auth)
        blob == UNION { BlobCallsFor(f, lookup[f.id]) : f \in DeleteTargets(trashed) }
        gone == DeletedRows(files, auth)
        R(status, error, deleted, bl, rd, wr, fs) ==
            Outcome(Reply("EmptyTrash", auth, NoUser, NoInput, status, error, {}, deleted, bl, rd, wr),
                    fs, nextId)
    IN  IF Unauthenticated(auth) THEN R(401, "Unauthorized", 0, {}, 0, 0, files)
        ELSE IF fault = "select"
            THEN Threw(R(500, "Failed to empty trash", 0, {}, 1, 0, files), "select")
        ELSE IF NothingTrashed(trashed)
            THEN R(NoTrashReply.status, NoTrashReply.error, 0, {}, 1, 0, files)
        ELSE IF BlobFailureAborts(blob)
            THEN Threw(R(500, "Failed to empty trash", 0, blob, 1, 0, files), "blob")
        ELSE IF fault = "write"
            THEN Threw(R(500, "Failed to empty trash", 0, blob, 1, 1, files), "write")
        ELSE R(200, "", Cardinality(gone), blob, 1, 1, files \ gone)

(* -------------------------- trash flag flip ---------------------------- *)

\* the owner of a row flips its isTrash flag
ToggleTrashHandler(auth, target) ==
    LET in == [NoInput EXCEPT !.target = target]
        mine == { f \in files : f.id = target /\ f.userId = auth }
        R(status, error, out, rd, wr, fs) ==
            Outcome(Reply("ToggleTrash", auth, NoUser, in, status, error, out, 0, {}, rd, wr),
                    fs, nextId)
    IN  IF Unauthenticated(auth) THEN R(401, "Unauthorized", {}, 0, 0, files)
        ELSE IF mine = {} THEN R(404, "File not found", {}, 1, 0, files)
        ELSE R(200, "", { [f EXCEPT !.isTrash = ~f.isTrash] : f \in mine }, 1, 1,
               (files \ mine) \cup { [f EXCEPT !.isTrash = ~f.isTrash] : f \in mine })

(* ----------------------------- actions --------------------------------- *)

Callers == Users \cup {NoUser}
ParentIds == {NULL, EMPTY, BOGUS} \cup (1 .. (nextId - 1))

\* the request is served: the table, the id generator and the record of
\* the call take the handler's outcome
Serve(o) ==
    /\ last = Idle
    /\ o.nextId <= MaxRows + 1
    /\ files' = o.files
    /\ nextId' = o.nextId
    /\ pre' = files
    /\ last' = o.resp
    /\ UNCHANGED <<calls, creating, form>>

List ==
    \/ Serve(ListHandler(NoUser, NoUser, NULL, "none"))
    \/ \E auth \in Users, q \in Callers, p \in ParentIds, fault \in {"none", "select"} :
           Serve(ListHandler(auth, q, p, fault))

\* a request under another userId is answered before the handler looks at
\* the rest of the body: it is sent with a body that is otherwise in order
CreateFolder ==
    \/ Serve(CreateFolderHandler(NoUser, NoUser, NoName, NULL, "none"))
    \/ \E auth \in Users, p \in ParentIds : \E b \in Callers \ {auth} :
           Serve(CreateFolderHandler(auth, b, Str(<<" ", "a", " ">>), p, "none"))
    \/ \E auth \in Users, name \in Names, p \in ParentIds,
          fault \in {"none", "select", "write"} :
           Serve(CreateFolderHandler(auth, auth, name, p, fault))

RegisterUpload ==
    \/ Serve(RegisterUploadHandler(NoUser, NoUser, NoIk, "none"))
    \/ \E auth \in Users, b \in Callers, ik \in IkResults, fault \in {"none", "write"} :
           Serve(RegisterUploadHandler(auth, b, ik, fault))

UploadAndRegister ==
    \/ Serve(UploadHandler(NoUser, NoUser, NoFile, NULL, "none"))
    \/ \E auth \in Users, p \in ParentIds : \E b \in Callers \ {auth} :
           \E file \in { f \in Payloads : f.type = "image/png" } :
               Serve(UploadHandler(auth, b, file, p, "none"))
    \/ \E auth \in Users, file \in Payloads, p \in ParentIds, fault \in Faults :
           Serve(UploadHandler(auth, auth, file, p, fault))

ImageKitAuth ==
    \E auth \in Callers, fault \in {"none", "blob"} :
        Serve(ImageKitAuthHandler(auth, fault))

\* every answer of the Blob Store with a store that works, and a store
\* that fails with a Blob Store that finds and deletes every object
EmptyTrash ==
    \E auth \in Callers :
        LET ids == { f.id : f \in DeleteTargets(Trashed(files, auth)) }
        IN  \/ \E lookup \in [ids -> Lookups] :
                   Serve(EmptyTrashHandler(auth, lookup, "none"))
            \/ \E fault \in {"select", "write"} :
                   Serve(EmptyTrashHandler(auth, [id \in ids |-> Lookup("match", TRUE, TRUE)],
                                           fault))

ToggleTrash ==
    \E auth \in Callers, target \in 1 .. (nextId - 1) :
        Serve(ToggleTrashHandler(auth, target))

\* the response has gone out; the server takes the next request
Respond ==
    /\ last # Idle
    /\ last' = Idle
    /\ pre' = files
    /\ UNCHANGED <<files, nextId, calls, creating, form>>

Next ==
    \/ List
    \/ CreateFolder
    \/ RegisterUpload
    \/ UploadAndRegister
    \/ ImageKitAuth
    \/ EmptyTrash
    \/ Respond

Spec == Init /\ [][Next]_vars

(* ------------- the trash lifecycle, with well-formed requests ---------- *)

\* requests of a signed-in client that sends its own userId
WellFormedName == Str(<<" ", "a", " ">>)

ListOwn ==
    \E auth \in Users, p \in ParentIds :
        Serve(ListHandler(auth, auth, p, "none"))

CreateFolderOwn ==
    \E auth \in Users, p \in ParentIds :
        Serve(CreateFolderHandler(auth, auth, WellFormedName, p, "none"))

RegisterUploadOwn ==
    \E auth \in Users, ik \in IkResults :
        Serve(RegisterUploadHandler(auth, auth, ik, "none"))

UploadAndRegisterOwn ==
    \E auth \in Users, file \in Payloads, p \in ParentIds :
        Serve(UploadHandler(auth, auth, file, p, "none"))

NextTrash ==
    \/ ListOwn
    \/ CreateFolderOwn
    \/ RegisterUploadOwn
    \/ UploadAndRegisterOwn
    \/ ToggleTrash
    \/ EmptyTrash
    \/ Respond

SpecTrash == Init /\ [][NextTrash]_vars

(* --------------- Empty Trash, one step for each await ------------------ *)

\* the rows whose deletePromise waits for the Blob Store: the trashed files
\* with an imagekitFileId (a promise without one finishes where it starts)
Attempts(trashed) == { f.id : f \in { g \in DeleteTargets(trashed) : ImagekitFileId(g) # "" } }

\* whether the deletePromise removed the object from the Blob Store
BlobDeleted(f, lookup) ==
    \E c \in BlobCallsFor(f, lookup) : c.call \in {"deleteFileId", "deleteFile"} /\ c.ok

\* a handler that goes on to the DELETE while promises are pending
AllSettled_NoWait(pending) == TRUE

\* await Promise.allSettled(deletePromises)
AllSettled(pending) == pending = {}

\* the SELECT of the trashed rows; with none the handler answers, else
\* filter and map start one deletePromise for each trashed file
TrashSelect(c) ==
    /\ last = Idle
    /\ calls[c].pc = "idle"
    /\ \E auth \in Users :
          LET trashed == Trashed(files, auth)
          IN  calls' = [calls EXCEPT ![c] =
                  IF NothingTrashed(trashed)
                  THEN [NoCall EXCEPT !.pc = "answered", !.auth = auth,
                                      !.status = NoTrashReply.status]
                  ELSE [NoCall EXCEPT !.pc = "awaiting", !.auth = auth,
                                      !.trashedFiles = trashed,
                                      !.pending = Attempts(trashed)]]
    /\ UNCHANGED <<files, nextId, pre, last, creating, form>>

\* one deletePromise settles, whichever the Blob Store answers first
TrashSettle(c) ==
    /\ last = Idle
    /\ \E f \in calls[c].trashedFiles, lookup \in Lookups :
          /\ f.id \in calls[c].pending
          /\ calls' = [calls EXCEPT
                 ![c].pending = @ \ {f.id},
                 ![c].settled = Append(@, [row |-> f.id, ok |-> BlobDeleted(f, lookup)])]
    /\ UNCHANGED <<files, nextId, pre, last, creating, form>>

\* a message that counts the rows of the SELECT
DeletedCount_Selected(deletedFiles, trashedFiles) == Cardinality(trashedFiles)

\* `Successfully deleted ${deletedFiles.length} files from trash`
DeletedCount(deletedFiles, trashedFiles) == Cardinality(deletedFiles)

\* db.delete(files).where(...).returning(), after Promise.allSettled
TrashDelete(c) ==
    /\ last = Idle
    /\ calls[c].pc = "awaiting"
    /\ AllSettled(calls[c].pending)
    /\ LET gone == DeletedRows(files, calls[c].auth)
       IN  /\ files' = files \ gone
           /\ calls' = [calls EXCEPT ![c].pc = "answered", ![c].status = 200,
                                      ![c].deleted = DeletedCount(gone, calls[c].trashedFiles),
                                      ![c].removed = gone]
    /\ UNCHANGED <<nextId, pre, last, creating, form>>

\* the response has gone out and every promise of the call is over
TrashReply(c) ==
    /\ last = Idle
    /\ calls[c].pc = "answered"
    /\ calls[c].pending = {}
    /\ calls' = [calls EXCEPT ![c] = NoCall]
    /\ UNCHANGED <<files, nextId, pre, last, creating, form>>

NextSteps ==
    \/ CreateFolderOwn
    \/ RegisterUploadOwn
    \/ ToggleTrash
    \/ Respond
    \/ \E c \in FirstCall : TrashSelect(c)
    \/ \E c \in FirstCall : TrashSettle(c)
    \/ \E c \in FirstCall : TrashDelete(c)
    \/ \E c \in FirstCall : TrashReply(c)

SpecSteps == Init /\ [][NextSteps]_vars

(* ------------------ two Empty Trash calls at a time -------------------- *)

\* no Empty Trash call is in flight
Quiet == \A c \in Calls : calls[c].pc = "idle"

\* the responses have gone out: every call that ran has its answer, and
\* the next calls start from a server without a call in flight
TrashReplyAll ==
    /\ last = Idle
    /\ \A c \in Calls : calls[c].pc \in {"idle", "answered"} /\ calls[c].pending = {}
    /\ \E c \in Calls : calls[c].pc = "answered"
    /\ calls' = [c \in Calls |-> NoCall]
    /\ UNCHANGED <<files, nextId, pre, last, creating, form>>

\* rows are made and flagged while no call runs; then the calls of
\* Calls take their steps in any interleaving
NextConcurrent ==
    \/ Quiet /\ CreateFolderOwn
    \/ Quiet /\ RegisterUploadOwn
    \/ Quiet /\ ToggleTrash
    \/ Respond
    \/ \E c \in Calls : TrashSelect(c)
    \/ \E c \in Calls : TrashSettle(c)
    \/ \E c \in Calls : TrashDelete(c)
    \/ TrashReplyAll

SpecConcurrent == Init /\ [][NextConcurrent]_vars

(* --------- Create Folder, one step for each store operation ------------ *)

\* a parent lookup that takes a folder of any owner
CheckedParent_AnyOwner(fs, parentId, userId) ==
    IF Truthy(parentId) THEN { f \in fs : f.id = parentId /\ f.isFolder } ELSE {}

\* const [parentFolder] = await db.select()...where(id, userId, isFolder);
\* without a parentId nothing is selected
CheckedParent(fs, parentId, userId) ==
    IF Truthy(parentId) THEN ParentFolder(fs, parentId, userId) ELSE {}

\* a well-formed request up to the parent check: without a parentFolder
\* for a supplied parentId the handler answers "Parent folder not found"
FolderCheck ==
    /\ last = Idle
    /\ creating.pc = "idle"
    /\ \E auth \in Users, p \in ParentIds :
          LET parentFolder == CheckedParent(files, p, auth)
          IN  creating' =
                  IF Truthy(p) /\ parentFolder = {}
                  THEN [NoCreate EXCEPT !.pc = "answered", !.auth = auth,
                                        !.parentId = p, !.status = 401]
                  ELSE [NoCreate EXCEPT !.pc = "checked", !.auth = auth,
                                        !.parentId = p, !.parentFolder = parentFolder]
    /\ UNCHANGED <<files, nextId, pre, last, calls, form>>

\* db.insert(files).values(folderData).returning(): the table as it is
\* now takes the row, whatever became of the parent since the check
FolderInsert ==
    /\ creating.pc = "checked"
    /\ IF ColumnAccepts(creating.parentId)
       THEN /\ nextId <= MaxRows
            /\ files' = Inserted(files, FolderData(WellFormedName, creating.auth,
                                                   creating.parentId), nextId)
            /\ nextId' = nextId + 1
            /\ creating' = [creating EXCEPT !.pc = "answered", !.status = 200,
                                            !.folder = nextId]
       ELSE /\ creating' = [creating EXCEPT !.pc = "answered", !.status = 500]
            /\ UNCHANGED <<files, nextId>>
    /\ UNCHANGED <<pre, last, calls, form>>

\* the response of the Create Folder call has gone out
FolderReply ==
    /\ last = Idle
    /\ creating.pc = "answered"
    /\ creating' = NoCreate
    /\ UNCHANGED <<files, nextId, pre, last, calls, form>>

NextRace ==
    \/ CreateFolderOwn
    \/ ToggleTrash
    \/ EmptyTrash
    \/ Respond
    \/ FolderCheck
    \/ FolderInsert
    \/ FolderReply

SpecRace == Init /\ [][NextRace]_vars

(* --------------------------- sign-up form ------------------------------ *)

\* what a Clerk call answers: success, an error with a message of its
\* own, or an error without one
ClerkAnswers == {"ok", "That email address is taken", "undefined"}

\* error.errors?.[0]?.message || "An error occured during the signup. ..."
AuthErrorOf(answer) ==
    IF answer = "undefined" THEN "An error occured during the signup" ELSE answer

\* the addresses a visitor signs up with
Emails == {"a@droply.io", "b@droply.io"}

\* one call of the Clerk SDK and whether it succeeded
ClerkCall(call, answer) == [call |-> call, ok |-> answer = "ok"]

\* a handler that shows the verification view once the account exists
AfterCreate_Verifying(f) ==
    [f EXCEPT !.pc = "prepare", !.clerk = Append(@, ClerkCall("create", "ok")),
              !.verifying = TRUE]

\* signUp.create has succeeded: on to prepareEmailAddressVerification
AfterCreate(f) ==
    [f EXCEPT !.pc = "prepare", !.clerk = Append(@, ClerkCall("create", "ok"))]

\* catch: setAuthError(...); finally: setIsSubmitting(false)
AfterFailure(f, call, answer) ==
    [f EXCEPT !.pc = "done", !.clerk = Append(@, ClerkCall(call, answer)),
              !.authError = AuthErrorOf(answer), !.isSubmitting = FALSE]

\* the step leaves the stores and the calls of the server alone
FormOnly == UNCHANGED <<files, nextId, pre, last, calls, creating>>

\* useSignUp() reports that Clerk has loaded
ClerkLoaded ==
    /\ ~form.isLoaded
    /\ form' = [form EXCEPT !.isLoaded = TRUE]
    /\ FormOnly

\* onClick={() => setShowPassword(!showPassword)}
TogglePassword ==
    /\ ~form.verifying
    /\ form' = [form EXCEPT !.showPassword = ~@]
    /\ FormOnly

\* onClick={() => setShowConfirmPassword(!showConfirmPassword)}
ToggleConfirmPassword ==
    /\ ~form.verifying
    /\ form' = [form EXCEPT !.showConfirmPassword = ~@]
    /\ FormOnly

\* onSubmit up to its first await: return without Clerk, else
\* setIsSubmitting(true), setAuthError(null) and signUp.create(...)
Submit ==
    /\ form.pc = "idle"
    /\ ~form.verifying /\ ~form.isSubmitting
    /\ \E email \in Emails :
          form' = IF ~form.isLoaded
                  THEN [form EXCEPT !.pc = "done", !.email = email, !.clerk = <<>>]
                  ELSE [form EXCEPT !.pc = "create", !.email = email, !.clerk = <<>>,
                                    !.isSubmitting = TRUE, !.authError = "null"]
    /\ FormOnly

\* signUp.create settles
CreateSettles ==
    /\ form.pc = "create"
    /\ \E answer \in ClerkAnswers :
          form' = IF answer = "ok" THEN AfterCreate(form)
                  ELSE AfterFailure(form, "create", answer)
    /\ FormOnly

\* signUp.prepareEmailAddressVerification settles: setVerifying(true) on
\* success, the catch block on failure, the finally block on both
PrepareSettles ==
    /\ form.pc = "prepare"
    /\ \E answer \in ClerkAnswers :
          form' = IF answer = "ok"
                  THEN [form EXCEPT !.pc = "done",
                                    !.clerk = Append(@, ClerkCall("prepare", "ok")),
                                    !.verifying = TRUE, !.isSubmitting = FALSE]
                  ELSE AfterFailure(form, "prepare", answer)
    /\ FormOnly

\* the submit handler has returned
SubmitReturns ==
    /\ form.pc = "done"
    /\ form' = [form EXCEPT !.pc = "idle"]
    /\ FormOnly

NextForm ==
    \/ ClerkLoaded
    \/ TogglePassword
    \/ ToggleConfirmPassword
    \/ Submit
    \/ CreateSettles
    \/ PrepareSettles
    \/ SubmitReturns

SpecForm == Init /\ [][NextForm]_vars

(* ============================ properties =============================== *)

Authenticated == last.auth \in Users
\* the caller sent its own identity as the userId of the request
Matching == Authenticated /\ last.reqUser = last.auth
\* the request carries a parent identifier (a non-empty value)
ParentSupplied == last.in.parentId # NULL /\ last.in.parentId # EMPTY
\* the supplied parent names a folder of the caller in the table as it was
\* when the request arrived
ParentIsOwnFolder ==
    \E g \in pre : g.id = last.in.parentId /\ g.userId = last.auth /\ g.isFolder
Unchanged == files = pre

\* C1: a List call authenticated as B never returns a row whose userId
\* differs from B, whatever userId and parentId parameters it carries.
C1_ListOwnershipIsolation ==
    last.op = "List" => \A f \in last.out : f.userId = last.auth

\* B lists a folder that belongs to A and that has a child of A
C1_Witness ==
    /\ last.op = "List" /\ last.status = 200
    /\ \E g \in files : /\ g.id = last.in.parentId /\ g.isFolder
                         /\ g.userId # last.auth
                         /\ \E c \in files : c.parentId = g.id /\ c.userId = g.userId

\* C2: a successful List by U returns exactly the rows of U under the
\* supplied parent, or exactly the root rows of U when none is supplied;
\* trashed rows are not filtered out.
C2_ListReturnsExactlyOwnChildren ==
    (last.op = "List" /\ last.status = 200) =>
        last.out = { f \in files :
                       /\ f.userId = last.auth
                       /\ f.parentId = (IF ParentSupplied THEN last.in.parentId ELSE NULL) }

\* a listing that contains a trashed row next to a row that is not trashed
C2_Witness ==
    /\ last.op = "List" /\ last.status = 200
    /\ \E f \in last.out : f.isTrash
    /\ \E f \in last.out : ~f.isTrash

\* C3: when the userId a request carries differs from the authenticated
\* identity, List, Create Folder, Register Upload and Upload-and-Register
\* answer 401 Unauthorized, leave the table as it was and call neither
\* the table's writes nor the Blob Store.
C3_MismatchRejected ==
    ( /\ last.op \in {"List", "CreateFolder", "RegisterUpload", "Upload"}
      /\ Authenticated /\ last.reqUser # last.auth ) =>
        /\ last.status = 401 /\ last.error = "Unauthorized"
        /\ Unchanged /\ last.writes = 0 /\ last.blob = {}

\* an upload whose file, type and parent folder are all fine, sent under
\* another user's id
C3_Witness ==
    /\ last.op = "Upload" /\ Authenticated
    /\ last.reqUser \in Users /\ last.reqUser # last.auth
    /\ last.in.file.present /\ last.in.file.type = "image/png"
    /\ ParentIsOwnFolder
    /\ last.status = 401

\* C4: with no authenticated user every endpoint answers 401 Unauthorized
\* and touches neither the table nor the Blob Store.
C4_UnauthenticatedRejected ==
    (last.op # "none" /\ last.auth = NoUser) =>
        /\ last.status = 401 /\ last.error = "Unauthorized"
        /\ last.reads = 0 /\ last.writes = 0 /\ last.blob = {}
        /\ Unchanged

\* an anonymous Empty Trash against a table that holds rows
C4_Witness ==
    /\ last.op = "EmptyTrash" /\ last.auth = NoUser /\ last.status = 401
    /\ files # {}

\* C5: every stored row with a parentId references an existing row of the
\* same owner that is a folder.
C5_ParentReferencesOwnFolder ==
    \A f \in files :
        f.parentId # NULL =>
            \E g \in files : g.id = f.parentId /\ g.userId = f.userId /\ g.isFolder

\* C6: Create Folder with a parentId that names no row, another owner's
\* row or a file never succeeds and adds no row.
C6_FolderBadParentRejected ==
    (last.op = "CreateFolder" /\ ParentSupplied /\ ~ParentIsOwnFolder) =>
        /\ last.status # 200 /\ last.error # ""
        /\ Unchanged

\* a well-named folder under a folder of another owner
C6_Witness ==
    /\ last.op = "CreateFolder" /\ Matching
    /\ last.in.name = Str(<<"a">>)
    /\ \E g \in pre : g.id = last.in.parentId /\ g.isFolder /\ g.userId # last.auth
    /\ last.status # 200

\* the request's name is not a string, or is a string of spaces only
NameBlank ==
    \/ last.in.name.kind # "string"
    \/ \A i \in 1 .. Len(last.in.name.s) : last.in.name.s[i] = " "

\* C7: the status of every rejection matches its category: InvalidArgument
\* 400, NotFound 404, Unauthorized 401, unexpected failure 500.
C7_StatusMatchesCategory ==
    /\ (last.op # "none" /\ (~Authenticated \/ (last.op \in {"List", "CreateFolder", "RegisterUpload", "Upload"} /\ ~Matching)))
          => last.status = 401
    /\ (last.op = "CreateFolder" /\ Matching /\ NameBlank) => last.status = 400
    /\ (last.op = "CreateFolder" /\ Matching /\ ~NameBlank /\ ParentSupplied
           /\ ~ParentIsOwnFolder) => last.status \in {404, 500}
    /\ (last.op = "RegisterUpload" /\ Matching
           /\ (~last.in.imagekit.present \/ last.in.imagekit.url = NoUrl)) => last.status = 400
    /\ (last.op = "Upload" /\ Matching /\ ~last.in.file.present) => last.status = 400
    /\ (last.op = "Upload" /\ Matching /\ last.in.file.present /\ ~ParentSupplied)
          => last.status = 404
    /\ (last.op = "Upload" /\ Matching /\ last.in.file.present /\ ParentSupplied
           /\ last.in.file.type \notin {"image/png", "application/pdf"})
          => last.status \in {400, 404, 500}
    /\ last.error \in {"Error to fetch files", "Failed to create folder",
                        "Failed to save file information", "Failed to upload file",
                        "Failed to empty trash",
                        "Failed to generate authentication parameters for imagekit"}
          => last.status = 500

\* C8: Create Folder by a matching caller with a name that is missing, not
\* a string, empty or only whitespace answers 400 and adds no row, with or
\* without a parentId, whether or not that parent exists.
C8_BlankNameRejected ==
    (last.op = "CreateFolder" /\ Matching /\ NameBlank) =>
        /\ last.status = 400 /\ last.error = "Folder name is required"
        /\ Unchanged

\* a whitespace-only name under a parentId that names no row
C8_Witness ==
    /\ last.op = "CreateFolder" /\ Matching
    /\ last.in.name = Str(<<" ">>)
    /\ last.in.parentId = BOGUS
    /\ last.status = 400

\* t is s without its leading and trailing spaces
IsTrimOf(t, s) ==
    /\ t # <<>> => (t[1] # " " /\ t[Len(t)] # " ")
    /\ \E i \in 1 .. Len(s) + 1, j \in 0 .. Len(s) :
          /\ t = SubSeq(s, i, j)
          /\ \A k \in 1 .. Len(s) : (k < i \/ k > j) => s[k] = " "

\* C9: a successful Create Folder adds exactly one row; the returned row
\* has the supplied parent (none when none was supplied), isFolder, size 0,
\* type "folder", an empty fileUrl, the trimmed name, the caller as owner
\* and neither flag set; every other row is as it was.
C9_FolderCreated ==
    (last.op = "CreateFolder" /\ last.status = 200) =>
        /\ Cardinality(last.out) = 1
        /\ \A r \in last.out :
              /\ files = pre \cup {r}
              /\ \A f \in pre : f.id # r.id
              /\ r.parentId = (IF ParentSupplied THEN last.in.parentId ELSE NULL)
              /\ r.isFolder /\ r.size = 0 /\ r.type = "folder" /\ r.fileUrl = NoUrl
              /\ IsTrimOf(r.name, last.in.name.s)
              /\ r.userId = last.auth /\ Authenticated
              /\ ~r.isStarred /\ ~r.isTrash

\* a folder with a padded name created inside an existing folder
C9_Witness ==
    /\ last.op = "CreateFolder" /\ last.status = 200
    /\ last.in.name = Str(<<" ", "a", " ">>)
    /\ ParentSupplied /\ pre # {}
    /\ \E r \in last.out : r.name = <<"a">> /\ r.parentId = last.in.parentId

\* C10: Upload-and-Register is rejected with NotFound, uploads nothing and
\* creates no row unless the parentId names a folder of the caller.
C10_UploadNeedsOwnFolder ==
    ( /\ last.op = "Upload" /\ Matching /\ last.in.file.present
      /\ ~(ParentSupplied /\ ParentIsOwnFolder) ) =>
        /\ last.status \in {404, 500}
        /\ last.blob = {} /\ Unchanged

\* the payload's MIME type is neither an image type nor application/pdf
TypeUnsupported == last.in.file.type \notin {"image/png", "application/pdf"}

\* C11: Upload-and-Register never uploads or stores a payload whose MIME
\* type neither starts with "image/" nor is "application/pdf", and answers
\* 400 once the identity and parent checks have passed.
C11_UnsupportedTypeRejected ==
    (last.op = "Upload" /\ last.in.file.present /\ TypeUnsupported) =>
        /\ last.status # 200 /\ last.blob = {} /\ last.writes = 0 /\ Unchanged
        /\ (Matching /\ ParentSupplied /\ last.threw = "none") =>
              (last.status = 400 /\ last.error = "Only images and pdf are supported")

\* a text file sent into a folder of the caller
C11_Witness ==
    /\ last.op = "Upload" /\ Matching /\ ParentIsOwnFolder
    /\ last.in.file.type = "text/plain"
    /\ last.status = 400

\* C13: in Upload-and-Register a failed upload or a failed insert answers
\* 500 with the fixed message; the upload precedes the insert, so a failed
\* upload leaves no row.
C13_UploadFailureGeneric ==
    last.op = "Upload" =>
        /\ last.threw \in {"blob", "write"} =>
              /\ last.status = 500 /\ last.error = "Failed to upload file"
              /\ last.out = {} /\ Unchanged
        /\ last.writes > 0 => \E c \in last.blob : c.call = "upload" /\ c.ok
        /\ (\E c \in last.blob : c.call = "upload" /\ ~c.ok) =>
              (last.writes = 0 /\ Unchanged /\ last.status = 500)

\* an upload into a folder of the caller that the Blob Store refuses
C13_Witness ==
    /\ last.op = "Upload" /\ Matching /\ ParentIsOwnFolder
    /\ last.threw = "blob" /\ last.status = 500
    /\ \E c \in last.blob : ~c.ok

\* the upload result of the request carries a URL
HasUrl == last.in.imagekit.present /\ last.in.imagekit.url # NoUrl

\* C14: Register Upload by a matching caller creates a row if and only if
\* the upload result is present and has a URL; a rejection creates none; a
\* success creates exactly one root row of the caller that is neither a
\* folder nor trashed, named "Untitled" when the result has no name.
C14_RegisterCreatesIffUrl ==
    (last.op = "RegisterUpload" /\ Matching) =>
        /\ last.status # 200 => (Unchanged /\ last.out = {})
        /\ last.threw = "none" => (last.status = 200 <=> HasUrl)
        /\ last.status = 200 =>
              /\ Cardinality(last.out) = 1
              /\ \A r \in last.out :
                    /\ files = pre \cup {r}
                    /\ \A f \in pre : f.id # r.id
                    /\ r.parentId = NULL /\ ~r.isFolder /\ ~r.isTrash
                    /\ r.userId = last.auth
                    /\ r.fileUrl = last.in.imagekit.url
                    /\ r.name = (IF last.in.imagekit.name = <<>> THEN <<"Untitled">>
                                 ELSE last.in.imagekit.name)

\* a registration without a name, stored as "Untitled"
C14_Witness ==
    /\ last.op = "RegisterUpload" /\ last.status = 200
    /\ last.in.imagekit.name = <<>>
    /\ \E r \in last.out : r.name = <<"Untitled">> /\ r \in files

\* C15: the userId of every row is the authenticated identity of the call
\* that created it, and no call changes the userId of a row.
C15_OwnerSetOnceFromAuth ==
    /\ \A r \in files :
          (\A f \in pre : f.id # r.id) => (Authenticated /\ r.userId = last.auth)
    /\ \A f \in pre, g \in files : f.id = g.id => g.userId = f.userId

\* a row created while rows of the other user are in the table
C15_Witness ==
    /\ last.status = 200
    /\ \E r \in files : /\ \A f \in pre : f.id # r.id
                         /\ r.userId = last.auth
    /\ \E f \in pre : f.userId # last.auth /\ f \in files

\* the response to the List that the caller of the last request sends
\* next, for the parent of the last request
FollowingList == ListHandler(last.auth, last.auth, last.in.parentId, "none").resp

\* C12: a successful Upload-and-Register by U into P adds exactly one row,
\* with the original file name, parentId P, userId U, neither a folder nor
\* trashed, and the List by U of P that follows returns that row once.
C12_UploadedRowListed ==
    (last.op = "Upload" /\ last.status = 200) =>
        /\ Cardinality(last.out) = 1
        /\ \A r \in last.out :
              /\ files = pre \cup {r}
              /\ \A f \in pre : f.id # r.id
              /\ r.name = last.in.file.name
              /\ ParentSupplied /\ r.parentId = last.in.parentId
              /\ Authenticated /\ r.userId = last.auth
              /\ ~r.isFolder /\ ~r.isTrash
              /\ FollowingList.status = 200
              /\ Cardinality({ f \in FollowingList.out : f.id = r.id }) = 1
              /\ r \in FollowingList.out

\* a.png uploaded into a folder of the caller and listed there
C12_Witness ==
    /\ last.op = "Upload" /\ last.status = 200 /\ ParentIsOwnFolder
    /\ \E r \in last.out : r.name = <<"a.png">> /\ FollowingList.out = {r}

\* the trashed rows of the caller of the last request
TrashOfCaller(fs) == { f \in fs : f.userId = last.auth /\ f.isTrash }

\* C16: when U has n >= 1 trashed rows, Empty Trash by U answers success
\* with a deleted count of n and leaves no trashed row of U.
C16_EmptyTrashDeletesAll ==
    ( /\ last.op = "EmptyTrash" /\ Authenticated
      /\ TrashOfCaller(pre) # {} /\ last.threw = "none" ) =>
        /\ last.status = 200 /\ last.error = ""
        /\ last.deleted = Cardinality(TrashOfCaller(pre))
        /\ TrashOfCaller(files) = {}

\* two trashed files of one owner, emptied with a count of 2
C16_Witness ==
    /\ last.op = "EmptyTrash" /\ last.status = 200
    /\ last.deleted = 2
    /\ \A f \in TrashOfCaller(pre) : ~f.isFolder

\* the outcomes of the Empty Trash that the caller of the last request
\* sends next, for every answer of the Blob Store
FollowingEmptyTrash ==
    { EmptyTrashHandler(last.auth, lookup, "none") :
        lookup \in [{ f.id : f \in DeleteTargets(Trashed(files, last.auth)) } -> Lookups] }

\* C17: an Empty Trash that follows a successful Empty Trash of the same
\* owner answers 200 without an error, changes no row and calls the Blob
\* Store not at all.
C17_EmptyTrashIdempotent ==
    (last.op = "EmptyTrash" /\ last.status = 200) =>
        \A o \in FollowingEmptyTrash :
            /\ o.resp.status = 200 /\ o.resp.error = ""
            /\ o.files = files
            /\ o.resp.blob = {}
            /\ o.resp.deleted = 0

\* a first Empty Trash that removed a row and left others in the table
C17_Witness ==
    /\ last.op = "EmptyTrash" /\ last.status = 200
    /\ last.deleted >= 1 /\ files # {}
    /\ FollowingEmptyTrash # {}

\* C18: Empty Trash by U removes only trashed rows of U: every row of
\* another owner and every row of U that is not trashed stays as it was,
\* also a row whose parent is a trashed folder.
C18_EmptyTrashFrame ==
    last.op = "EmptyTrash" =>
        /\ files \subseteq pre
        /\ \A f \in pre : (f.userId # last.auth \/ ~f.isTrash) => f \in files

\* a trashed folder is removed and the row inside it stays
C18_Witness ==
    /\ last.op = "EmptyTrash" /\ last.status = 200
    /\ \E g \in pre \ files :
          /\ g.isFolder
          /\ \E c \in files : c.parentId = g.id /\ c.userId = g.userId /\ ~c.isTrash

\* C19: whatever Blob Store lookups and deletes fail, Empty Trash still
\* makes the attempt for every trashed file, still runs the DELETE and
\* answers success.
C19_BlobFailuresSwallowed ==
    ( /\ last.op = "EmptyTrash" /\ Authenticated
      /\ TrashOfCaller(pre) # {} /\ last.threw \notin {"select", "write"} ) =>
        /\ last.status = 200 /\ last.error = ""
        /\ last.writes = 1 /\ TrashOfCaller(files) = {}
        /\ \A f \in TrashOfCaller(pre) :
              (~f.isFolder /\ ImagekitFileId(f) # "") =>
                  /\ \E c \in last.blob : c.row = f.id /\ c.call = "listFiles"
                  /\ (\E c \in last.blob : c.row = f.id /\ c.call = "listFiles" /\ ~c.ok)
                        => \E c \in last.blob : c.row = f.id /\ c.call = "deleteFile"

\* two trashed files: every call for the first fails, the second is still
\* looked up and deleted, and the answer is success
C19_Witness ==
    /\ last.op = "EmptyTrash" /\ last.status = 200 /\ last.deleted = 2
    /\ \E f, g \in pre :
          /\ f.id # g.id
          /\ \A c \in last.blob : c.row = f.id => ~c.ok
          /\ \E c \in last.blob : c.row = f.id
          /\ \E c \in last.blob : c.row = g.id /\ c.call = "deleteFileId" /\ c.ok

\* the rows whose deletePromise the call c has seen settle
SettledRows(c) == { calls[c].settled[i].row : i \in DOMAIN calls[c].settled }

\* C20: once an Empty Trash call has issued its DELETE, every Blob Store
\* attempt the call started has settled, with success or with failure,
\* and none is pending.
C20_DeleteAfterAllSettled ==
    \A c \in Calls :
        (calls[c].pc = "answered" /\ calls[c].trashedFiles # {}) =>
            /\ calls[c].pending = {}
            /\ \A f \in calls[c].trashedFiles :
                  (~f.isFolder /\ ImagekitFileId(f) # "") => f.id \in SettledRows(c)

\* a call that issued its DELETE after two attempts settled in the
\* reverse of the order they were started in, one of them a failure
C20_Witness ==
    \E c \in Calls :
        /\ calls[c].pc = "answered" /\ calls[c].deleted = 2
        /\ Len(calls[c].settled) = 2
        /\ calls[c].settled[1].row > calls[c].settled[2].row
        /\ ~calls[c].settled[1].ok /\ calls[c].settled[2].ok

\* C21: every file row with an object identifier that an Empty Trash call
\* removes from the table had a Blob Store deletion attempt issued for it
\* by that call, also when the row was flagged as trashed between the
\* SELECT and the DELETE of the call.
C21_RemovedRowsWereAttempted ==
    \A c \in Calls :
        calls[c].pc = "answered" =>
            \A f \in calls[c].removed :
                (~f.isFolder /\ ImagekitFileId(f) # "") =>
                    f.id \in Attempts(calls[c].trashedFiles)

\* the row with this identifier, if the table has one
RowsWithId(fs, id) == { f \in fs : f.id = id }

\* C22: a Create Folder call inserts its row when its parent check has
\* passed, and the insert does not look at the parent again: the step that
\* answers 200 for a supplied parentId adds one row with that parentId,
\* the parent having been a folder of the caller when it was checked,
\* whether or not the table still has the parent.
C22_InsertFollowsPassedCheck ==
    [][ ( /\ creating.pc = "checked" /\ creating'.pc = "answered"
          /\ creating'.status = 200 /\ Truthy(creating.parentId) ) =>
            /\ creating.parentFolder # {}
            /\ \A g \in creating.parentFolder :
                  g.id = creating.parentId /\ g.userId = creating.auth /\ g.isFolder
            /\ \E r \in files' \ files :
                  /\ r.id = creating'.folder /\ r.parentId = creating.parentId
                  /\ r.userId = creating.auth /\ r.isFolder
                  /\ files' = files \cup {r} ]_vars

\* the check passed, then the Empty Trash of the same owner removed the
\* parent, then the insert added the child: the child is not in the table
\* the Empty Trash found, and its parentId names no row
C22_Witness ==
    /\ creating.pc = "answered" /\ creating.status = 200
    /\ creating.parentFolder # {}
    /\ last.op = "EmptyTrash" /\ last.status = 200 /\ last.auth = creating.auth
    /\ \E g \in pre : g.id = creating.parentId /\ g.isTrash /\ g.isFolder
    /\ RowsWithId(files, creating.parentId) = {}
    /\ RowsWithId(pre, creating.folder) = {}
    /\ \E r \in RowsWithId(files, creating.folder) : r.parentId = creating.parentId

\* the Blob Store calls the last request made for the row f
CallsFor(f) == { c \in last.blob : c.row = f.id }

\* the calls of the last Empty Trash follow the lookup: nothing for a
\* folder; for a file first listFiles by the derived name, then, when the
\* answer is one of `matches`, deleteFile with the fileId of the match,
\* and when the answer is empty, deleteFile with the derived name
DeletesFollowLookup(matches) ==
    ( /\ last.op = "EmptyTrash" /\ Authenticated
      /\ TrashOfCaller(pre) # {} /\ last.threw # "select" ) =>
        \A f \in TrashOfCaller(pre) :
            IF f.isFolder THEN CallsFor(f) = {}
            ELSE ImagekitFileId(f) # "" =>
                \E l \in CallsFor(f) :
                    /\ l.call = "listFiles" /\ l.n = 1 /\ l.name = ImagekitFileId(f)
                    /\ \A c \in CallsFor(f) \ {l} : c.n > l.n
                    /\ (l.ok /\ l.found \in matches) =>
                          \E d \in CallsFor(f) : d.call = "deleteFileId" /\ d.n = 2
                    /\ (l.ok /\ l.found = "nomatch") =>
                          /\ \E d \in CallsFor(f) :
                                d.call = "deleteFile" /\ d.n = 2 /\ d.name = ImagekitFileId(f)
                          /\ \A d \in CallsFor(f) : d.call # "deleteFileId"

\* C23, as stated: for each trashed file Empty Trash looks the name up
\* first, deletes by the identifier of the match when the lookup returns
\* one and by the derived identifier when it returns none; for a trashed
\* folder it calls the Blob Store not at all.
C23_DeleteByMatchOrName == DeletesFollowLookup({"match", "notFile"})

\* C23, amended: the delete by the identifier of the match takes place
\* when the match is a file object; for a match that is none the promise
\* makes no delete call.
C23_DeleteByFileMatchOrName ==
    /\ DeletesFollowLookup({"match"})
    /\ last.op = "EmptyTrash" =>
          \A f \in TrashOfCaller(pre) :
              (\E l \in CallsFor(f) : l.call = "listFiles" /\ l.found = "notFile")
                  => \A c \in CallsFor(f) : c.call = "listFiles"

\* two trashed files and a success: one looked up with a match and deleted
\* by the identifier of the match, one without a match and deleted by name
C23_Witness ==
    /\ last.op = "EmptyTrash" /\ last.status = 200 /\ last.deleted = 2
    /\ \E f, g \in TrashOfCaller(pre) :
          /\ f.id # g.id
          /\ \E l \in CallsFor(f) : l.call = "listFiles" /\ l.found = "match"
          /\ \E d \in CallsFor(f) : d.call = "deleteFileId" /\ d.ok
          /\ \E l \in CallsFor(g) : l.call = "listFiles" /\ l.found = "nomatch"
          /\ \E d \in CallsFor(g) : d.call = "deleteFile" /\ d.ok

\* both calls have their answer, for one owner
BothAnswered ==
    /\ \A c \in Calls : calls[c].pc = "answered"
    /\ calls["c1"].auth = calls["c2"].auth

\* C24: when two Empty Trash calls of one owner have run against each
\* other, neither answers with an error, every row that either call found
\* trashed is gone and was removed by exactly one of them, and the counts
\* of the calls add up to the number of rows removed.
C24_ConcurrentEmptyTrash ==
    BothAnswered =>
        LET found == calls["c1"].trashedFiles \cup calls["c2"].trashedFiles
            removed == calls["c1"].removed \cup calls["c2"].removed
        IN  /\ \A c \in Calls : calls[c].status = 200
            /\ \A f \in found :
                  /\ RowsWithId(files, f.id) = {}
                  /\ f \in removed
            /\ calls["c1"].removed \cap calls["c2"].removed = {}
            /\ removed = found
            /\ calls["c1"].deleted + calls["c2"].deleted = Cardinality(removed)
            /\ \A f \in files : ~(f.userId = calls["c1"].auth /\ f.isTrash)

\* both calls selected the same two trashed rows before either deleted;
\* one reports 2 and the other 0
C24_Witness ==
    /\ BothAnswered
    /\ Cardinality(calls["c1"].trashedFiles) = 2
    /\ calls["c1"].trashedFiles = calls["c2"].trashedFiles
    /\ \E c, d \in Calls : calls[c].deleted = 2 /\ calls[d].deleted = 0 /\ calls[d].status = 200

\* a Clerk call of the submit failed
SubmitFailed == \E i \in DOMAIN form.clerk : ~form.clerk[i].ok

\* C25: verifying is true only when the account creation and the
\* preparation of the email verification of one submit have both
\* succeeded, in this order; when either fails verifying stays false and
\* authError is set; and when the submit handler has finished
\* isSubmitting is false, whatever the outcome.
C25_VerifyingAfterBothCalls ==
    /\ form.verifying =>
          form.clerk = <<ClerkCall("create", "ok"), ClerkCall("prepare", "ok")>>
    /\ SubmitFailed => (~form.verifying /\ (form.pc = "done" => form.authError # "null"))
    /\ form.pc = "done" => ~form.isSubmitting
    /\ form.pc \in {"create", "prepare"} => (form.isSubmitting /\ ~form.verifying)

\* the account was created, the preparation failed: the handler has
\* finished with authError set, verifying false and isSubmitting false
C25_Witness ==
    /\ form.pc = "done"
    /\ form.clerk = <<ClerkCall("create", "ok"), ClerkCall("prepare", "undefined")>>
    /\ form.authError = AuthErrorOf("undefined")
    /\ ~form.verifying /\ ~form.isSubmitting

====
